---- MODULE Spec2Model ----
(***************************************************************************)
(* torch_autoneb/__init__.py as a state machine.                           *)
(*                                                                         *)
(* State: the landscape MultiGraph (nodes with attributes; per unordered   *)
(* pair the key -> attribute dictionary of its cycles, in insertion        *)
(* order), the AutoNEB configuration, the record of the auto_neb           *)
(* invocation made last by the current or latest top-level call, the       *)
(* position of landscape_exploration, the last result of to_simple_graph,  *)
(* the pbar class the import of lines 12-29 has bound, whether the graph   *)
(* was handed over without edges, and the record of the last call of       *)
(* find_minimum, neb or load_pickle_graph.                                  *)
(*                                                                         *)
(* Node identifiers are integers, edge keys are integers, attribute names  *)
(* are strings.  Exceptions are modelled as an outcome record              *)
(* [err, line]; err = "none" is normal completion.                         *)
(***************************************************************************)
EXTENDS Integers, Sequences, FiniteSets, TLC

VARIABLES graph, config, last, expl, simple, pbar, origin, call

vars == <<graph, config, last, expl, simple, pbar, origin, call>>

(***************************************************************************)
(* Bounds of the model.                                                    *)
(***************************************************************************)
\* largest number of cycles a pair holds in an initial graph
MaxExisting == 3
\* largest configured cycle_count
MaxCycleCount == 3

\* node identifiers of the graph
Nodes == {1, 2, 3}
\* values the weight key takes in an analysis
Weights == {2, 5}
\* pairs that may hold cycles in an initial graph
SeededPairs == {{1, 2}, {2, 3}}

\* the abstention sentinel of suggest_pair
None == 0

Pairs == {p \in SUBSET Nodes : Cardinality(p) = 2}

(***************************************************************************)
(* Python helpers.                                                          *)
(***************************************************************************)
Max(S) == CHOOSE x \in S : \A y \in S : y <= x

Range(s) == {s[i] : i \in 1..Len(s)}

\* the COORDS row of a node: graph.nodes[m]["coords"].view(1, -1)
NodeCoords(g, m) == g.nodes[m].coords

\* dict.__getitem__ of an attribute dictionary (string keys) with a node
\* identifier (an integer): an int never equals a str, so the key is absent
AttrDictHasNode(attrs, m) == FALSE

(***************************************************************************)
(* MultiGraph access.  g.edges[p] is the key dictionary of pair p: a        *)
(* sequence of [key, attrs] in insertion order; the empty sequence is a     *)
(* pair without adjacency entry.                                            *)
(***************************************************************************)
KeyDict(g, m1, m2) == IF m1 = m2 THEN <<>> ELSE g.edges[{m1, m2}]

Keys(keydict) == {keydict[i].key : i \in 1..Len(keydict)}

\* graph[m1][m2] finds an adjacency entry
HasAdjacency(g, m1, m2) ==
    /\ m1 \in DOMAIN g.nodes
    /\ m2 \in DOMAIN g.nodes
    /\ Len(KeyDict(g, m1, m2)) > 0

\* keydict[k]: the attribute dictionary stored under key k
EdgeData(keydict, k) ==
    keydict[CHOOSE i \in 1..Len(keydict) : keydict[i].key = k].attrs

\* MultiGraph.add_edge(m1, m2, key=k, **data): a new key is appended, an
\* existing key has its attribute dictionary updated
add_edge(g, m1, m2, k, data) ==
    LET kd == KeyDict(g, m1, m2)
        nkd == IF k \in Keys(kd)
               THEN [i \in 1..Len(kd) |->
                        IF kd[i].key = k
                        THEN [key |-> k, attrs |-> data @@ kd[i].attrs]
                        ELSE kd[i]]
               ELSE Append(kd, [key |-> k, attrs |-> data])
    IN  [g EXCEPT !.edges[{m1, m2}] = nkd]

(***************************************************************************)
(* The fill strategy (config.fill_method.fill, torch_autoneb.fill): between *)
(* every two consecutive images insert_count images are inserted on the     *)
(* connecting line, and every target distance is repeated for the gaps it   *)
(* is split into.                                                            *)
(***************************************************************************)
Interpolate(a, b, insert_count) ==
    [j \in 1..insert_count |-> a + ((b - a) * j) \div (insert_count + 1)]

RECURSIVE FillCoords(_, _)
FillCoords(path_coords, insert_count) ==
    IF Len(path_coords) <= 1
    THEN path_coords
    ELSE <<path_coords[1]>>
         \o Interpolate(path_coords[1], path_coords[2], insert_count)
         \o FillCoords(Tail(path_coords), insert_count)

RECURSIVE FillDistances(_, _)
FillDistances(target_distances, insert_count) ==
    IF target_distances = <<>>
    THEN <<>>
    ELSE [j \in 1..(insert_count + 1) |-> target_distances[1]]
         \o FillDistances(Tail(target_distances), insert_count)

fill(previous_path_coords, insert_count, previous_target_distances) ==
    [start_path |-> FillCoords(previous_path_coords, insert_count),
     target_distances |-> FillDistances(previous_target_distances, insert_count)]

(***************************************************************************)
(* The optimisers and the model wrapper.  getattr(optim, name) finds the    *)
(* classes of torch.optim and raises AttributeError for any other name.     *)
(* The model wrapper holds its coordinates, its gradient and its evaluation *)
(* mode; the energy is |coords|, apply(gradient=True) adds its gradient to  *)
(* the gradient held and an optimiser step moves against the gradient.      *)
(***************************************************************************)
OptimNames == {"SGD", "Adam"}

\* the optimiser names configurations are drawn from
OptimNameInputs == {"SGD", "NoSuchOptimiser"}

\* most optimiser steps a configuration asks for
MaxSteps == 2

\* the coordinates initialise_randomly can draw
RandomCoords == {-2, 3}

Gradient(c) == IF c > 0 THEN 1 ELSE IF c < 0 THEN -1 ELSE 0

Model(coords, grad, eval_config) ==
    [coords |-> coords, grad |-> grad, eval_config |-> eval_config]

\* a model as its owner left it before the call
UsedModel == Model(7, 4, "train")

OptimConfigs ==
    {[optim_name |-> name, nsteps |-> n, eval_config |-> "eval"] :
        name \in OptimNameInputs, n \in 0..MaxSteps}

\* what a function that raised returns
NoResult == [raised |-> TRUE]

(***************************************************************************)
(* find_minimum: the Minimum Finder.  events lists the calls made on the    *)
(* model and the optimiser, in order.                                        *)
(***************************************************************************)
\* variant for mutation checks: the gradient is not reset before apply
RECURSIVE find_minimum_steps_no_zero_grad(_, _, _)
find_minimum_steps_no_zero_grad(n, model, events) ==
    IF n = 0
    THEN [model |-> model, events |-> events]
    ELSE LET applied == [model EXCEPT !.grad = @ + Gradient(model.coords)]
             stepped == [applied EXCEPT !.coords = @ - applied.grad]
         IN  find_minimum_steps_no_zero_grad(n - 1, stepped,
                                             events \o <<"apply", "step">>)

\* the for loop of find_minimum with n iterations to go
RECURSIVE find_minimum_steps(_, _, _)
find_minimum_steps(n, model, events) ==
    IF n = 0
    THEN [model |-> model, events |-> events]
    ELSE LET zeroed == [model EXCEPT !.grad = 0]
             applied == [zeroed EXCEPT !.grad = @ + Gradient(zeroed.coords)]
             stepped == [applied EXCEPT !.coords = @ - applied.grad]
         IN  find_minimum_steps(n - 1, stepped,
                                events \o <<"zero_grad", "apply", "step">>)

\* c0: the coordinates initialise_randomly draws; w: the value analyse reports
find_minimum(model, cfg, c0, w) ==
    IF cfg.optim_name \notin OptimNames
    THEN [err |-> "AttributeError", line |-> 35, model |-> model,
          events |-> <<>>, result |-> NoResult]
    ELSE LET initialised == [model EXCEPT !.coords = c0, !.grad = 0]
             adapted == [initialised EXCEPT !.eval_config = cfg.eval_config]
             run == find_minimum_steps(cfg.nsteps, adapted,
                                       <<"initialise_randomly", "adapt_to_config">>)
             result == [coords |-> run.model.coords]
             analysis == [value |-> w]
         IN  [err |-> "none", line |-> 0, model |-> run.model,
              events |-> run.events \o <<"get_coords", "analyse">>,
              result |-> analysis @@ result]

(***************************************************************************)
(* neb: one Path-Optimizer round.  The optimiser steps move the interior    *)
(* images of the NEB model and leave their number and the two end images    *)
(* alone; the analysis of the NEB model supplies the weight w.  neb_result  *)
(* is the dictionary a round returns.                                        *)
(***************************************************************************)
\* neb_model.path_coords after neb_model.apply(gradient=True) and
\* optimiser.step(): every interior image has moved one unit down
NebStep(path_coords) ==
    [i \in 1..Len(path_coords) |->
        IF i = 1 \/ i = Len(path_coords) THEN path_coords[i] ELSE path_coords[i] - 1]

\* neb_model.path_coords after n iterations of the loop of neb
RECURSIVE Relax(_, _)
Relax(path_coords, n) ==
    IF n = 0 THEN path_coords ELSE Relax(NebStep(path_coords), n - 1)

neb_result(previous_cycle_data, cycle_config, w) ==
    LET filled == fill(previous_cycle_data.path_coords,
                       cycle_config.insert_count,
                       previous_cycle_data.target_distances)
        result == [path_coords |-> Relax(filled.start_path,
                                         cycle_config.optim_config.nsteps),
                   target_distances |-> filled.target_distances]
        analysis == [weight |-> w]
    IN  analysis @@ result

\* the for loop of neb with n iterations to go
RECURSIVE neb_steps(_, _)
neb_steps(n, events) ==
    IF n = 0 THEN events ELSE neb_steps(n - 1, events \o <<"apply", "step">>)

\* the whole of neb: the chain is filled and the NEB model built before the
\* optimiser is looked up
neb(previous_cycle_data, cfg, w) ==
    LET pre == <<"fill", "NEB">>
        optim_config == cfg.optim_config
    IN  IF optim_config.optim_name \notin OptimNames
        THEN [err |-> "AttributeError", line |-> 64, events |-> pre,
              result |-> NoResult]
        ELSE [err |-> "none", line |-> 0,
              events |-> neb_steps(optim_config.nsteps, pre) \o <<"analyse">>,
              result |-> neb_result(previous_cycle_data, cfg, w)]

\* number of parameters of def neb(previous_cycle_data, model, config)
NebParams == 3
\* number of arguments of the call neb(m1, m2, previous_cycle_data, model, cycle_config)
NebCallArgs == 5

(***************************************************************************)
(* auto_neb: the Cycle Manager.                                              *)
(***************************************************************************)
Outcome(g, err, line, rounds) ==
    [graph |-> g, err |-> err, line |-> line, rounds |-> rounds]

\* the fresh-start seed: the coordinates of m1 and m2, torch.ones(1)
FreshSeed(g, m1, m2) ==
    [path_coords |-> <<NodeCoords(g, m1), NodeCoords(g, m2)>>,
     target_distances |-> <<1>>]

(***************************************************************************)
(* Variants of auto_neb for mutation checks: the refinement with resumption *)
(* from the last stored cycle, seeded and keyed as section 4.3 describes,   *)
(* with one slip v:                                                          *)
(*   "no_precondition" start_cycle_idx <= cycle_count is not checked         *)
(*   "overwrites_last" the edge is stored under cycle_idx - 1                *)
(***************************************************************************)
RECURSIVE variant_loop(_, _, _, _, _, _, _, _, _)
variant_loop(cycle_idx, data, m1, m2, g, cfg, w, rounds, v) ==
    IF cycle_idx > cfg.cycle_count
    THEN Outcome(g, "none", 0, rounds)
    ELSE LET connection_data ==
                 neb_result(data, cfg.hyperparameter_sets[cfg.cycle_count], w)
             k == IF v = "overwrites_last" /\ cycle_idx > 1 THEN cycle_idx - 1
                  ELSE cycle_idx
             round == [cycle_idx |-> cycle_idx, seed |-> data,
                       hyperparameter_set |-> cfg.cycle_count - 1,
                       images |-> Len(connection_data.path_coords)]
         IN  variant_loop(cycle_idx + 1, connection_data, m1, m2,
                          add_edge(g, m1, m2, k, connection_data),
                          cfg, w, Append(rounds, round), v)

auto_neb_variant(m1, m2, g, cfg, w, v) ==
    LET existing_edges == KeyDict(g, m1, m2)
        previous_cycle_idx ==
            IF Len(existing_edges) > 0 THEN Max(Keys(existing_edges)) ELSE 0
        data == IF Len(existing_edges) > 0
                THEN EdgeData(existing_edges, previous_cycle_idx)
                ELSE FreshSeed(g, m1, m2)
    IN  IF m1 = m2
        THEN Outcome(g, "KeyError", 83, <<>>)
        ELSE IF v # "no_precondition" /\ previous_cycle_idx + 1 > cfg.cycle_count
             THEN Outcome(g, "AssertionError", 94, <<>>)
             ELSE variant_loop(previous_cycle_idx + 1, data, m1, m2, g, cfg, w, <<>>, v)

auto_neb_no_precondition(m1, m2, g, cfg, w) ==
    auto_neb_variant(m1, m2, g, cfg, w, "no_precondition")

auto_neb_overwrites_last(m1, m2, g, cfg, w) ==
    auto_neb_variant(m1, m2, g, cfg, w, "overwrites_last")

\* the for loop of auto_neb from cycle_idx on; previous_cycle_data and
\* start_cycle_idx are the values assigned before the loop
RECURSIVE auto_neb_loop(_, _, _, _, _, _, _, _, _)
auto_neb_loop(cycle_idx, start_cycle_idx, previous_cycle_data, m1, m2, g, cfg, w, rounds) ==
    IF cycle_idx > cfg.cycle_count
    THEN Outcome(g, "none", 0, rounds)
    ELSE LET cycle_config == cfg.hyperparameter_sets[(start_cycle_idx - 1) + 1]
         IN  IF NebCallArgs # NebParams
             THEN Outcome(g, "TypeError", 99, rounds)
             ELSE LET made == neb(previous_cycle_data, cycle_config, w)
                      connection_data == made.result
                      round == [cycle_idx |-> cycle_idx,
                                seed |-> previous_cycle_data,
                                hyperparameter_set |-> start_cycle_idx - 1,
                                images |-> Len(connection_data.path_coords)]
                  IN  IF made.err # "none"
                      THEN Outcome(g, made.err, made.line, rounds)
                      ELSE auto_neb_loop(cycle_idx + 1, start_cycle_idx,
                                         previous_cycle_data, m1, m2,
                                         add_edge(g, m1, m2, cycle_idx, connection_data),
                                         cfg, w, Append(rounds, round))

\* existing_edges[m1][m2] of line 85: existing_edges maps edge keys to
\* attribute dictionaries, so the first subscript misses unless m1 is an edge
\* key, and the second looks the node m2 up among attribute names.  (Were m2
\* an attribute name, max() would be applied to an attribute value: no such
\* input exists with integer node identifiers.)
Line85Error(existing_edges, m1, m2) ==
    IF m1 \notin Keys(existing_edges)
    THEN "KeyError"
    ELSE IF ~AttrDictHasNode(EdgeData(existing_edges, m1), m2)
         THEN "KeyError"
         ELSE "unmodelled"

auto_neb(m1, m2, g, cfg, w) ==
    IF ~HasAdjacency(g, m1, m2)
    THEN Outcome(g, "KeyError", 83, <<>>)
    ELSE LET existing_edges == KeyDict(g, m1, m2)
         IN  IF Len(existing_edges) > 0
             THEN Outcome(g, Line85Error(existing_edges, m1, m2), 85, <<>>)
             ELSE LET previous_cycle_data == FreshSeed(g, m1, m2)
                      start_cycle_idx == 1
                  IN  IF ~(start_cycle_idx <= cfg.cycle_count)
                      THEN Outcome(g, "AssertionError", 94, <<>>)
                      ELSE auto_neb_loop(start_cycle_idx, start_cycle_idx,
                                         previous_cycle_data, m1, m2, g, cfg, w, <<>>)

\* what an invocation auto_neb(m1, m2, g, ...) with outcome r did, as seen
\* by its caller (by: "caller" or "landscape_exploration")
Invocation(m1, m2, g, cfg, r, by) ==
    LET before == KeyDict(g, m1, m2)
        after == KeyDict(r.graph, m1, m2)
    IN  [called |-> TRUE, m1 |-> m1, m2 |-> m2, by |-> by,
         cycle_count |-> cfg.cycle_count,
         existing |-> Len(before),
         previous_max |-> IF Len(before) = 0 THEN 0 ELSE Max(Keys(before)),
         err |-> r.err, line |-> r.line, rounds |-> r.rounds,
         inserted |-> [i \in 1..(Len(after) - Len(before)) |->
                          after[Len(before) + i].key],
         graph_unchanged |-> (r.graph = g),
         preserved |->
            /\ r.graph.nodes = g.nodes
            /\ \A p \in Pairs : p # {m1, m2} => r.graph.edges[p] = g.edges[p]
            /\ Len(before) <= Len(after)
            /\ \A i \in 1..Len(before) : after[i] = before[i]]

NoInvocation ==
    [called |-> FALSE, m1 |-> None, m2 |-> None, by |-> "nobody",
     cycle_count |-> 0, existing |-> 0, previous_max |-> 0,
     err |-> "none", line |-> 0, rounds |-> <<>>, inserted |-> <<>>,
     graph_unchanged |-> TRUE, preserved |-> TRUE]

(***************************************************************************)
(* landscape_exploration: one pass of the while loop for the suggestion     *)
(* sugg returned by suggest_pair.  An exception of auto_neb leaves the      *)
(* with block (tqdm's __exit__ does not suppress it) and ends the run.      *)
(***************************************************************************)
exploration_iteration(ex, g, cfg, inv, sugg, w) ==
    LET m1 == sugg[1]
        m2 == sugg[2]
        asked == [ex EXCEPT !.asks = @ + 1, !.suggestion = sugg]
    IN  IF m1 = None \/ m2 = None
        THEN [expl |-> [asked EXCEPT !.status = "done"], graph |-> g, last |-> inv]
        ELSE LET r == auto_neb(m1, m2, g, cfg, w)
                 called == [asked EXCEPT !.calls = @ + 1]
                 v == Invocation(m1, m2, g, cfg, r, "landscape_exploration")
             IN  IF r.err # "none"
                 THEN [expl |-> [called EXCEPT !.status = "error", !.raised = r.err],
                       graph |-> r.graph, last |-> v]
                 ELSE IF ex.bar = "None"
                      THEN [expl |-> [called EXCEPT !.status = "error",
                                                    !.raised = "AttributeError"],
                            graph |-> r.graph, last |-> v]
                      ELSE [expl |-> [called EXCEPT !.updates = @ + 1],
                            graph |-> r.graph, last |-> v]

NotExploring ==
    [status |-> "idle", asks |-> 0, calls |-> 0, updates |-> 0,
     suggestion |-> <<>>, raised |-> "none", bar |-> "unbound"]

\* what "with pbar(desc=...) as bar" binds to bar: tqdm's __enter__ returns
\* the progress bar, the __enter__ of the fallback class returns None
PbarEnter(cls) == IF cls = "tqdm" THEN "tqdm" ELSE "None"

(***************************************************************************)
(* to_simple_graph: the Graph Reducer.                                       *)
(***************************************************************************)
\* the name of the weight attribute (the weight_key argument)
WeightKey == "weight"

\* variant for mutation checks: the first key is taken whatever its weight
BestIndexFirstKey(keydict, weight_key) == 1

\* variant for mutation checks: of several minimal elements the last is kept
BestIndexLastMinimal(keydict, weight_key) ==
    CHOOSE i \in 1..Len(keydict) :
        /\ \A j \in 1..Len(keydict) :
              keydict[i].attrs[weight_key] <= keydict[j].attrs[weight_key]
        /\ \A j \in (i + 1)..Len(keydict) :
              keydict[j].attrs[weight_key] > keydict[i].attrs[weight_key]

\* position, in iteration order, of
\* min(graph[m1][m2], key=lambda key: graph[m1][m2][key][weight_key]):
\* Python's min keeps the first of several minimal elements
BestIndex(keydict, weight_key) ==
    CHOOSE i \in 1..Len(keydict) :
        /\ \A j \in 1..Len(keydict) :
              keydict[i].attrs[weight_key] <= keydict[j].attrs[weight_key]
        /\ \A j \in 1..(i - 1) :
              keydict[j].attrs[weight_key] > keydict[i].attrs[weight_key]

\* best_edge_data after best_edge_data["cycle_idx"] = best_edge_key; it is
\* the attribute dictionary of the multigraph's edge itself
BestEdgeData(keydict, weight_key) ==
    LET best == keydict[BestIndex(keydict, weight_key)]
    IN  ("cycle_idx" :> best.key) @@ best.attrs

\* both traversal directions (m1, m2) and (m2, m1) visit the same key
\* dictionary and select the same key, so a pair is reduced once here
to_simple_graph(g, weight_key) ==
    LET connected == {p \in Pairs : g.edges[p] # <<>>}
    IN  [simple_graph |->
            [nodes |-> g.nodes,
             edges |-> [p \in connected |-> BestEdgeData(g.edges[p], weight_key)]],
         graph |->
            [g EXCEPT !.edges =
                [p \in Pairs |->
                    [i \in 1..Len(g.edges[p]) |->
                        IF i = BestIndex(g.edges[p], weight_key)
                        THEN [key |-> g.edges[p][i].key,
                              attrs |-> BestEdgeData(g.edges[p], weight_key)]
                        ELSE g.edges[p][i]]]]]

NoSimpleGraph == [called |-> FALSE]

(***************************************************************************)
(* load_pickle_graph.  obj is the object pickle.load returns for the file:  *)
(* its class and its content.                                                *)
(***************************************************************************)
\* the classes an object of each class is an instance of (networkx:
\* MultiGraph(Graph), DiGraph(Graph), MultiDiGraph(MultiGraph, DiGraph))
Classes ==
    [MultiGraph |-> {"MultiGraph", "Graph"},
     MultiDiGraph |-> {"MultiDiGraph", "MultiGraph", "DiGraph", "Graph"},
     Graph |-> {"Graph"},
     DiGraph |-> {"DiGraph", "Graph"},
     dict |-> {"dict"}]

isinstance(obj, cls) == cls \in Classes[obj.class]

\* variant for mutation checks: the check is made against Graph
load_pickle_graph_any_graph(graph_file_name, obj) ==
    IF ~isinstance(obj, "Graph")
    THEN [err |-> "ValueError", line |-> 139,
          message |-> <<graph_file_name, " does not contain a nx.MultiGraph">>,
          result |-> NoResult]
    ELSE [err |-> "none", line |-> 0, message |-> <<>>, result |-> obj]

\* message: the parts of the f-string of line 139
load_pickle_graph(graph_file_name, obj) ==
    IF ~isinstance(obj, "MultiGraph")
    THEN [err |-> "ValueError", line |-> 139,
          message |-> <<graph_file_name, " does not contain a nx.MultiGraph">>,
          result |-> NoResult]
    ELSE [err |-> "none", line |-> 0, message |-> <<>>, result |-> obj]

(***************************************************************************)
(* Initial states: the graph handed to the public functions (built by the   *)
(* caller or read by load_pickle_graph) and an AutoNEB configuration.  As   *)
(* written auto_neb stores no cycle, so the cycles 1..k of a seeded pair    *)
(* are the work of the graph's builder, made in one of two ways:            *)
(*   "one_refinement"  by the loop of lines 96-100 in one pass: every round *)
(*                     is given the previous_cycle_data computed before the *)
(*                     loop, here the fresh seed;                            *)
(*   "chained"         by one call of neb per cycle, each given the cycle   *)
(*                     before as previous_cycle_data, the first the fresh   *)
(*                     seed.                                                 *)
(***************************************************************************)
NodeAttrs(m) == [coords |-> 10 * m, value |-> m]

NoEdges == [nodes |-> [m \in Nodes |-> NodeAttrs(m)], edges |-> [p \in Pairs |-> <<>>]]

Lower(p) == CHOOSE m \in p : \A n \in p : m <= n
Upper(p) == CHOOSE m \in p : \A n \in p : n <= m

\* the NEB configuration of the earlier refinement
EarlierConfig ==
    [insert_count |-> 1,
     optim_config |-> [optim_name |-> "SGD", nsteps |-> 1, eval_config |-> "eval"]]

Seedings == {"one_refinement", "chained"}

RECURSIVE EarlierCycle(_, _, _, _)
EarlierCycle(p, ws, i, seeding) ==
    neb_result(IF i = 1 \/ seeding = "one_refinement"
               THEN FreshSeed(NoEdges, Lower(p), Upper(p))
               ELSE EarlierCycle(p, ws, i - 1, seeding),
               EarlierConfig, ws[i])

EarlierKeyDict(p, ws, seeding) ==
    [i \in 1..Len(ws) |-> [key |-> i, attrs |-> EarlierCycle(p, ws, i, seeding)]]

WeightSeqs == UNION {[1..k -> Weights] : k \in 0..MaxExisting}

InitialGraphs ==
    {[NoEdges EXCEPT !.edges = [p \in Pairs |-> IF p \in SeededPairs
                                                THEN EarlierKeyDict(p, f[p], seeding)
                                                ELSE <<>>]] :
        f \in [SeededPairs -> WeightSeqs], seeding \in Seedings}

\* an AutoNEB configuration of n cycles whose NEB configurations use the
\* optimiser configuration oc
AutoNEBConfig(n, oc) ==
    [cycle_count |-> n,
     hyperparameter_sets |-> [i \in 1..n |-> [insert_count |-> 1, optim_config |-> oc]]]

Configs ==
    {AutoNEBConfig(n, [optim_name |-> "SGD", nsteps |-> 1, eval_config |-> "eval"]) :
        n \in 1..MaxCycleCount}

\* whether the graph handed over holds no edge
Origin(g) == IF \A p \in Pairs : g.edges[p] = <<>> THEN "no_edges" ELSE "refined"

\* no call of find_minimum, neb or load_pickle_graph has been made
NoCall == [op |-> "none"]

Init ==
    /\ graph \in InitialGraphs
    /\ config \in Configs
    /\ last = NoInvocation
    /\ expl = NotExploring
    /\ simple = NoSimpleGraph
    /\ pbar = "tqdm"
    /\ origin = Origin(graph)
    /\ call = NoCall

(***************************************************************************)
(* Actions: the calls of the public functions.                              *)
(***************************************************************************)
\* what suggest_pair can return: the sentinel (in either or both places) or
\* a pair of distinct nodes
Suggestions ==
    {<<None, None>>}
    \cup {<<None, m>> : m \in Nodes}
    \cup {<<m, None>> : m \in Nodes}
    \cup {s \in Nodes \X Nodes : s[1] # s[2]}

\* most passes of the exploration loop that are followed
MaxAsks == 3

AutoNeb(m1, m2, w) ==
    /\ expl.status = "idle"
    /\ LET r == auto_neb(m1, m2, graph, config, w)
       IN  /\ graph' = r.graph
           /\ last' = Invocation(m1, m2, graph, config, r, "caller")
    /\ UNCHANGED <<config, expl, simple, pbar, origin, call>>

\* landscape_exploration is called: the with block is entered
LandscapeExplorationEnter ==
    /\ expl.status = "idle"
    /\ expl' = [NotExploring EXCEPT !.status = "running", !.bar = PbarEnter(pbar)]
    /\ last' = NoInvocation
    /\ UNCHANGED <<graph, config, simple, pbar, origin, call>>

\* landscape_exploration has returned or raised: control is with its caller
LandscapeExplorationLeave ==
    /\ expl.status \in {"done", "error"}
    /\ expl' = NotExploring
    /\ UNCHANGED <<graph, config, last, simple, pbar, origin, call>>

LandscapeExplorationIterate(sugg, w) ==
    /\ expl.status = "running"
    /\ expl.asks < MaxAsks
    /\ LET r == exploration_iteration(expl, graph, config, last, sugg, w)
       IN  /\ expl' = r.expl
           /\ graph' = r.graph
           /\ last' = r.last
    /\ UNCHANGED <<config, simple, pbar, origin, call>>

ToSimpleGraph ==
    /\ expl.status = "idle"
    /\ LET r == to_simple_graph(graph, WeightKey)
       IN  /\ graph' = r.graph
           /\ simple' = [called |-> TRUE, nodes |-> r.simple_graph.nodes,
                         edges |-> r.simple_graph.edges]
    /\ UNCHANGED <<config, last, expl, pbar, origin, call>>

Next ==
    \/ \E m1 \in Nodes, m2 \in Nodes, w \in Weights : AutoNeb(m1, m2, w)
    \/ LandscapeExplorationEnter
    \/ LandscapeExplorationLeave
    \/ \E sugg \in Suggestions, w \in Weights : LandscapeExplorationIterate(sugg, w)
    \/ ToSimpleGraph

Spec == Init /\ [][Next]_vars

(***************************************************************************)
(* The Graph Reducer on graphs whose key dictionaries were filled in any    *)
(* order: the cycles 1..k of the pair PermutedPair are inserted in every    *)
(* permutation, so that iteration order and key order differ.               *)
(***************************************************************************)
PermutedPair == {1, 2}

InsertionOrders(k) == {f \in [1..k -> 1..k] : \A i \in 1..k, j \in 1..k : f[i] = f[j] => i = j}

\* the graph with the cycles 1..Len(f[p]) of every seeded pair p, those of
\* PermutedPair inserted in the order perm
ReducerGraph(f, perm) ==
    [NoEdges EXCEPT !.edges =
        [p \in Pairs |->
            IF p = PermutedPair
            THEN [i \in 1..Len(f[p]) |-> EarlierKeyDict(p, f[p], "chained")[perm[i]]]
            ELSE IF p \in SeededPairs THEN EarlierKeyDict(p, f[p], "chained") ELSE <<>>]]

\* weights of three cycles of which the last two tie for the minimum
TiedWeights == <<5, 2, 2>>

ReducerGraphs ==
    UNION {{ReducerGraph(f, perm) : perm \in InsertionOrders(Len(f[PermutedPair]))} :
              f \in {h \in [SeededPairs -> WeightSeqs] :
                        \A p \in SeededPairs \ {PermutedPair} :
                            Len(h[p]) <= 1 \/ h[p] = TiedWeights}}

InitReduce ==
    /\ graph \in ReducerGraphs
    /\ config \in {c \in Configs : c.cycle_count = 1}
    /\ last = NoInvocation
    /\ expl = NotExploring
    /\ simple = NoSimpleGraph
    /\ pbar = "tqdm"
    /\ origin = Origin(graph)
    /\ call = NoCall

SpecReduce == InitReduce /\ [][ToSimpleGraph]_vars

(***************************************************************************)
(* The environment varied: the progress-bar class in use (tqdm or the       *)
(* fallback class), the optimiser named by the configuration, and direct    *)
(* calls of find_minimum, neb and load_pickle_graph.                         *)
(***************************************************************************)
FileNames == {"graph.p", "minima.p"}

\* what a pickle file written from the graph g can hold
PickledObjects(g) ==
    {[class |-> "MultiGraph", content |-> g],
     [class |-> "MultiDiGraph", content |-> g],
     [class |-> "Graph", content |-> to_simple_graph(g, WeightKey).simple_graph],
     [class |-> "DiGraph", content |-> to_simple_graph(g, WeightKey).simple_graph],
     [class |-> "dict", content |-> g.nodes]}

EnvGraphs ==
    {[NoEdges EXCEPT !.edges = [p \in Pairs |-> IF p = PermutedPair
                                                THEN EarlierKeyDict(p, ws, "chained")
                                                ELSE <<>>]] :
        ws \in {[i \in 1..k |-> 2] : k \in {0, 1}}}

EnvConfigs == {AutoNEBConfig(n, oc) : n \in 1..MaxCycleCount, oc \in OptimConfigs}

InitEnv ==
    /\ graph \in EnvGraphs
    /\ config \in EnvConfigs
    /\ last = NoInvocation
    /\ expl = NotExploring
    /\ simple = NoSimpleGraph
    /\ pbar \in {"tqdm", "fallback"}
    /\ origin = Origin(graph)
    /\ call = NoCall

\* find_minimum(model, config) with the optimiser configuration of the
\* first NEB configuration
FindMinimum(c0, w) ==
    /\ expl.status = "idle"
    /\ LET cfg == config.hyperparameter_sets[1].optim_config
       IN  call' = [op |-> "find_minimum", config |-> cfg, model |-> UsedModel,
                    c0 |-> c0, analysis |-> [value |-> w],
                    out |-> find_minimum(UsedModel, cfg, c0, w)]
    /\ UNCHANGED <<graph, config, last, expl, simple, pbar, origin>>

\* neb(previous_cycle_data, model, config) for the fresh seed of the pair
\* (m1, m2) with the first NEB configuration
Neb(m1, m2, w) ==
    /\ expl.status = "idle"
    /\ m1 < m2
    /\ LET cfg == config.hyperparameter_sets[1]
           data == FreshSeed(graph, m1, m2)
       IN  call' = [op |-> "neb", config |-> cfg, previous_cycle_data |-> data,
                    out |-> neb(data, cfg, w)]
    /\ UNCHANGED <<graph, config, last, expl, simple, pbar, origin>>

LoadPickleGraph(graph_file_name, obj) ==
    /\ expl.status = "idle"
    /\ call' = [op |-> "load_pickle_graph", graph_file_name |-> graph_file_name,
                obj |-> obj, out |-> load_pickle_graph(graph_file_name, obj)]
    /\ UNCHANGED <<graph, config, last, expl, simple, pbar, origin>>

NextEnv ==
    \/ \E m1 \in Nodes, m2 \in Nodes, w \in Weights : AutoNeb(m1, m2, w)
    \/ LandscapeExplorationEnter
    \/ LandscapeExplorationLeave
    \/ \E sugg \in Suggestions, w \in Weights : LandscapeExplorationIterate(sugg, w)
    \/ ToSimpleGraph
    \/ \E c0 \in RandomCoords, w \in Weights : FindMinimum(c0, w)
    \/ \E m1 \in Nodes, m2 \in Nodes, w \in Weights : Neb(m1, m2, w)
    \/ \E f \in FileNames, obj \in PickledObjects(graph) : LoadPickleGraph(f, obj)

SpecEnv == InitEnv /\ [][NextEnv]_vars

(***************************************************************************)
(* landscape_exploration with a suggestion chain that proposes only pairs   *)
(* of distinct nodes holding fewer than cycle_count cycles, and the         *)
(* sentinel when no such pair is left.                                       *)
(***************************************************************************)
ChainSuggestions(g, cfg) ==
    LET unfinished == {sugg \in Nodes \X Nodes :
                          /\ sugg[1] # sugg[2]
                          /\ Len(KeyDict(g, sugg[1], sugg[2])) < cfg.cycle_count}
    IN  IF unfinished = {} THEN {<<None, None>>} ELSE unfinished

ChainIterate(sugg, w) ==
    /\ sugg \in ChainSuggestions(graph, config)
    /\ LandscapeExplorationIterate(sugg, w)

NextChain ==
    \/ LandscapeExplorationEnter
    \/ LandscapeExplorationLeave
    \/ \E sugg \in Suggestions, w \in Weights : ChainIterate(sugg, w)

SpecChain == Init /\ [][NextChain]_vars

(***************************************************************************)
(* Properties.                                                              *)
(***************************************************************************)
\* the part of a cycle's data a round is seeded with
PathOf(data) ==
    [path_coords |-> data.path_coords, target_distances |-> data.target_distances]

\* C2: auto_neb on a pair of graph nodes without edges completes without
\* error, seeds its first round with the two-image path of the coordinates
\* of m1 and m2 and the single target distance 1, and inserts the edges
\* 1, 2, ..., cycle_count in this order
C2_FreshStartInsertsAllCycles ==
    (last.called /\ last.m1 # last.m2 /\ last.existing = 0) =>
        /\ last.err = "none"
        /\ Len(last.rounds) = last.cycle_count
        /\ last.rounds[1].seed =
              [path_coords |-> <<NodeCoords(graph, last.m1), NodeCoords(graph, last.m2)>>,
               target_distances |-> <<1>>]
        /\ last.inserted = [i \in 1..last.cycle_count |-> i]

\* C3: in one invocation that has two or more cycles to produce, the round
\* producing cycle i+1 is seeded with the path coordinates and target
\* distances stored as cycle i, and has more images than the round before
C3_RoundsResumeFromPreviousRound ==
    (last.called /\ last.m1 # last.m2 /\ last.previous_max + 1 < last.cycle_count) =>
        /\ Len(last.rounds) = last.cycle_count - last.previous_max
        /\ \A i \in 1..(Len(last.rounds) - 1) :
              /\ PathOf(last.rounds[i + 1].seed) =
                    PathOf(EdgeData(KeyDict(graph, last.m1, last.m2),
                                    last.rounds[i].cycle_idx))
              /\ last.rounds[i + 1].images > last.rounds[i].images

\* C4: auto_neb on a pair holding the cycles 1..k, k < cycle_count, completes
\* without error, seeds its first round with the stored path of cycle k, and
\* inserts exactly the cycles k+1, ..., cycle_count
C4_ResumptionContinuesFromLastCycle ==
    (last.called /\ last.existing > 0 /\ last.previous_max < last.cycle_count) =>
        /\ last.err = "none"
        /\ Len(last.rounds) = last.cycle_count - last.previous_max
        /\ PathOf(last.rounds[1].seed) =
              PathOf(EdgeData(KeyDict(graph, last.m1, last.m2), last.previous_max))
        /\ last.inserted =
              [i \in 1..(last.cycle_count - last.previous_max) |-> last.previous_max + i]

\* C5: auto_neb on a pair whose largest cycle index is >= cycle_count fails
\* with an error before any Path-Optimizer round and leaves the graph as it
\* was
C5_CompletedPairFails ==
    (last.called /\ last.existing > 0 /\ last.previous_max >= last.cycle_count) =>
        /\ last.err # "none"
        /\ last.rounds = <<>>
        /\ last.graph_unchanged

\* auto_neb was invoked on a pair whose largest cycle index is >= cycle_count
C5_Witness ==
    /\ last.called
    /\ last.existing > 0
    /\ last.previous_max >= last.cycle_count
    /\ last.err = "KeyError"

\* C8: landscape_exploration invokes auto_neb once for every suggested pair
\* without None and then reports one unit of progress before it asks again;
\* on a suggestion with None it stops without invoking auto_neb
C8_OneInvocationOneProgressUnit ==
    expl.status # "idle" =>
        /\ expl.updates = expl.calls
        /\ expl.status = "running" => expl.asks = expl.calls
        /\ expl.status = "done" =>
              /\ None \in Range(expl.suggestion)
              /\ expl.asks = expl.calls + 1

\* C9: landscape_exploration ends, normally or by error, only when
\* suggest_pair has returned a pair containing None
C9_EndsOnlyBySentinel ==
    expl.status \in {"done", "error"} => None \in Range(expl.suggestion)

\* C10: the simple graph has the nodes and node attributes of the
\* multigraph and one edge for exactly the pairs with a cycle; the edge's
\* weight is <= the weight of every cycle of the pair, and its cycle_idx is
\* the key of a cycle of the pair with that weight and path
C10_SimpleGraphKeepsLightestCycle ==
    simple.called =>
        /\ simple.nodes = graph.nodes
        /\ DOMAIN simple.edges = {p \in Pairs : graph.edges[p] # <<>>}
        /\ \A p \in DOMAIN simple.edges :
              /\ \A c \in Range(graph.edges[p]) :
                    simple.edges[p][WeightKey] <= c.attrs[WeightKey]
              /\ \E c \in Range(graph.edges[p]) :
                    /\ c.key = simple.edges[p].cycle_idx
                    /\ c.attrs[WeightKey] = simple.edges[p][WeightKey]
                    /\ PathOf(c.attrs) = PathOf(simple.edges[p])

\* to_simple_graph has reduced a graph with an unconnected pair and a pair
\* whose lightest cycle is not its first
C10_Witness ==
    /\ simple.called
    /\ \E p \in Pairs : p \notin DOMAIN simple.edges
    /\ \E p \in DOMAIN simple.edges :
           /\ Len(graph.edges[p]) >= 2
           /\ simple.edges[p].cycle_idx # graph.edges[p][1].key
           /\ simple.edges[p][WeightKey] < graph.edges[p][1].attrs[WeightKey]

\* C11: of several cycles of a pair with the minimal weight, to_simple_graph
\* selects the first in the iteration (insertion) order of the pair's keys;
\* for the weights 5, 2, 2 at the keys 1, 2, 3 it selects cycle 2
C11_FirstMinimalCycleSelected ==
    simple.called =>
        \A p \in DOMAIN simple.edges :
            LET kd == graph.edges[p]
                i == CHOOSE i \in 1..Len(kd) : kd[i].key = simple.edges[p].cycle_idx
            IN  /\ simple.edges[p].cycle_idx \in Keys(kd)
                /\ \A j \in 1..Len(kd) : kd[i].attrs[WeightKey] <= kd[j].attrs[WeightKey]
                /\ \A j \in 1..(i - 1) : kd[j].attrs[WeightKey] > kd[i].attrs[WeightKey]
                /\ ([j \in 1..Len(kd) |-> <<kd[j].key, kd[j].attrs[WeightKey]>>]
                        = <<<<1, 5>>, <<2, 2>>, <<3, 2>>>>
                    => simple.edges[p].cycle_idx = 2)

\* to_simple_graph has selected cycle 2 of a pair with the weights 5, 2, 2 at
\* the keys 1, 2, 3, and cycle 3 of a pair whose equally light cycles were
\* inserted in the order 3, 1, 2
C11_Witness ==
    /\ simple.called
    /\ \E p \in DOMAIN simple.edges :
           /\ [j \in 1..Len(graph.edges[p]) |->
                  <<graph.edges[p][j].key, graph.edges[p][j].attrs[WeightKey]>>]
                 = <<<<1, 5>>, <<2, 2>>, <<3, 2>>>>
           /\ simple.edges[p].cycle_idx = 2
    /\ \E p \in DOMAIN simple.edges :
           /\ [j \in 1..Len(graph.edges[p]) |->
                  <<graph.edges[p][j].key, graph.edges[p][j].attrs[WeightKey]>>]
                 = <<<<3, 2>>, <<1, 2>>, <<2, 2>>>>
           /\ simple.edges[p].cycle_idx = 3

\* C12: to_simple_graph leaves the multigraph as it was: every cycle keeps
\* exactly the attributes it was stored with (path_coords, target_distances
\* and the analysis), none gains a cycle_idx attribute, and the nodes keep
\* theirs
C12_MultigraphLeftUnchanged ==
    /\ graph.nodes = NoEdges.nodes
    /\ \A p \in Pairs :
          \A c \in Range(graph.edges[p]) :
              DOMAIN c.attrs = {"path_coords", "target_distances", WeightKey}

\* C13: with the fallback pbar class progress reporting never fails the
\* run: inside the with block of landscape_exploration the object bound to
\* bar is one that accepts update(), as with the real progress bar
C13_FallbackBarAcceptsUpdate ==
    (pbar = "fallback" /\ expl.status = "running") => expl.bar # "None"

\* C14: load_pickle_graph returns the unpickled object itself exactly when
\* it is an instance of the multigraph class; for every other object it
\* raises ValueError with a message that begins with the file name, and
\* returns nothing
C14_LoadPickleGraphValidates ==
    call.op = "load_pickle_graph" =>
        IF call.obj.class \in {"MultiGraph", "MultiDiGraph"}
        THEN /\ call.out.err = "none"
             /\ call.out.result = call.obj
        ELSE /\ call.out.err = "ValueError"
             /\ call.out.message[1] = call.graph_file_name
             /\ call.out.result = NoResult

\* a file holding a simple graph with an edge was rejected
C14_Witness ==
    /\ call.op = "load_pickle_graph"
    /\ call.obj.class = "Graph"
    /\ DOMAIN call.obj.content.edges # {}
    /\ call.out.err = "ValueError"
    /\ call.out.message[1] = "minima.p"

\* C15: with an optimiser name that torch.optim does not have, find_minimum
\* fails before it touches the model, neb fails before any optimiser step,
\* and an auto_neb invocation that has rounds to run ends with that error of
\* neb without inserting an edge; landscape_exploration ends with the same
\* error after this one invocation
C15_UnknownOptimiserIsFatal ==
    /\ (call.op = "find_minimum" /\ call.config.optim_name = "NoSuchOptimiser") =>
          /\ call.out.err = "AttributeError"
          /\ call.out.events = <<>>
          /\ call.out.model = call.model
          /\ call.out.result = NoResult
    /\ (call.op = "neb" /\ call.config.optim_config.optim_name = "NoSuchOptimiser") =>
          /\ call.out.err = "AttributeError"
          /\ Range(call.out.events) \cap {"apply", "step"} = {}
          /\ call.out.result = NoResult
    /\ (/\ last.called
        /\ last.m1 # last.m2
        /\ last.previous_max < last.cycle_count
        /\ config.hyperparameter_sets[1].optim_config.optim_name = "NoSuchOptimiser") =>
          /\ last.err = "AttributeError"
          /\ last.line = 64
          /\ last.inserted = <<>>
          /\ (last.by = "landscape_exploration" /\ expl.status # "idle") =>
                /\ expl.status = "error"
                /\ expl.raised = "AttributeError"
                /\ expl.calls = 1

\* C16: a find_minimum call that returns has called initialise_randomly,
\* then adapt_to_config, then nsteps times zero_grad, apply, step, then
\* get_coords and analyse; the model is left in the evaluation mode of the
\* configuration and the result is the analysis with the coordinates read
C16_FindMinimumOrder ==
    (call.op = "find_minimum" /\ call.out.err = "none") =>
        LET n == call.config.nsteps
            ev == call.out.events
        IN  /\ Len(ev) = 3 * n + 4
            /\ ev[1] = "initialise_randomly"
            /\ ev[2] = "adapt_to_config"
            /\ \A i \in 0..(n - 1) :
                  /\ ev[3 * i + 3] = "zero_grad"
                  /\ ev[3 * i + 4] = "apply"
                  /\ ev[3 * i + 5] = "step"
            /\ ev[3 * n + 3] = "get_coords"
            /\ ev[3 * n + 4] = "analyse"
            /\ call.out.model.eval_config = call.config.eval_config
            /\ call.out.result.coords = call.out.model.coords
            /\ call.out.result.value = call.analysis.value

C16_Witness ==
    /\ call.op = "find_minimum"
    /\ call.out.err = "none"
    /\ call.config.nsteps >= 2
    /\ call.out.model.coords # call.c0
    /\ call.out.result.coords = call.out.model.coords

\* C18: an auto_neb invocation leaves the nodes and their attributes, the
\* cycles of every other pair, and the cycles its own pair had at entry
\* (keys and attributes) as they were; only cycles of its own pair are added
C18_AutoNebOnlyAddsCycles ==
    last.called => last.preserved

\* auto_neb was invoked for a pair that had cycles while another pair had
\* cycles too
C18_Witness ==
    /\ last.called
    /\ last.m1 # last.m2
    /\ last.existing >= 1
    /\ last.existing < last.cycle_count
    /\ \E p \in Pairs : p # {last.m1, last.m2} /\ graph.edges[p] # <<>>

\* C20: with a suggestion chain that proposes only unfinished pairs of
\* distinct nodes, landscape_exploration raises nothing and invokes auto_neb
\* at most once per unordered pair, so that it can only end by the sentinel
C20_ChainRunEndsBySentinel ==
    /\ expl.raised = "none"
    /\ expl.status # "error"
    /\ expl.calls <= Cardinality(Pairs)

====
